---- MODULE Spec2Model ----
(***************************************************************************)
(* Model of the Sharko data scripts.                                       *)
(*                                                                         *)
(*   final_dataset.py   the spatio-temporal join: occurrence points and    *)
(*                      pseudo-absence points joined against four          *)
(*                      environmental sources, written to a csv.gz table   *)
(*   SST_script_8day.py, script2.py   the file downloaders                 *)
(*                                                                         *)
(* Times are integer ticks, TicksPerSec ticks to the second (the source    *)
(* has 10**9 nanoseconds to the second); latitudes and longitudes are      *)
(* integers, so that a grid with nodes at even values has its axis         *)
(* midpoints at odd values.                                                *)
(***************************************************************************)
EXTENDS Integers, Sequences, FiniteSets, TLC

VARIABLES
    occurrence_file,      \* the occurrence table on disk (environment)
    folders,              \* source name -> content of its data folder (environment)
    tz,                   \* local UTC offset of the machine, in seconds (environment)
    pc,                   \* position of the final_dataset.py script
    seed,                 \* state of numpy's global generator for this run
    presence_data,        \* cleaned occurrence rows
    pseudo_absence_data,  \* sampled background rows
    combined_points,      \* presence rows followed by pseudo-absence rows
    final_dataset,        \* [cols, rows]: the table being built
    src_i,                \* index into data_sources of the next source
    ds,                   \* loop variable: the dataset opened last
    outcome,              \* source name -> what the loop printed for it
    output_file,          \* model_training_dataset.csv.gz, or NoFile
    script,               \* the downloader script being run
    disk,                 \* target -> size of its file in DATA_DIR, or Absent
    missing_log,          \* the lines of missing_files.txt
    dl_pc,                \* position of the downloader script
    dl_i,                 \* index of the next date in the download loop
    attempts,             \* session.get calls made by the last download_nc_file
    served,               \* what the server answered to each of those calls
    returned,             \* what the last download_nc_file returned
    nc_files,             \* paths collected by the download loop
    runs,                 \* runs of the downloader started so far
    out_index,            \* granules_index.csv, or NoIndex
    index_df,             \* the rows of index_df
    all_new,              \* granules found and not in the index
    g_pc,                 \* position of the granule downloader
    g_i,                  \* index of the next granule in all_new
    data_sss,             \* href -> state of its file in DOWNLOAD_DIR
    debug_files,          \* hrefs with a .debug snippet in DOWNLOAD_DIR
    listed,               \* hrefs the CMR queries of this run returned
    run_requests,         \* hrefs session.get was called for in this run
    last_request,         \* href the last download_href requested, or NoHref
    g_runs                \* runs of the granule downloader started so far

joinVars == <<occurrence_file, folders, tz, pc, seed, presence_data,
              pseudo_absence_data, combined_points, final_dataset, src_i, ds,
              outcome, output_file>>

dlVars == <<script, disk, missing_log, dl_pc, dl_i, attempts, served, returned,
            nc_files, runs>>

granVars == <<out_index, index_df, all_new, g_pc, g_i, data_sss, debug_files, listed,
              run_requests, last_request, g_runs>>

vars == <<joinVars, dlVars, granVars>>

----------------------------------------------------------------------------
(* Scalars                                                                 *)

NaN == -1            \* a missing float (numpy.nan); real values are >= 0
NaT == -1            \* an unparseable timestamp (pandas.NaT)
TicksPerSec == 2     \* 10**9 in the source
T0 == 4              \* start_date_str, in ticks
T1 == 12             \* end_date_str, in ticks
PseudoRatio == 2     \* pseudo-absence points per presence point

MaxSeed == 1         \* seeds 0..MaxSeed of the random generator
MaxRuns == 2         \* runs of a downloader script
TzOffsets == {-2, 0, 1}

Abs(x) == IF x < 0 THEN -x ELSE x

Range(s) == {s[k] : k \in DOMAIN s}

RECURSIVE SeqMin(_)
SeqMin(s) ==
    IF Len(s) = 1 THEN s[1]
    ELSE LET m == SeqMin(Tail(s)) IN IF s[1] < m THEN s[1] ELSE m

RECURSIVE SeqMax(_)
SeqMax(s) ==
    IF Len(s) = 1 THEN s[1]
    ELSE LET m == SeqMax(Tail(s)) IN IF s[1] > m THEN s[1] ELSE m

Column(rows, c) == [k \in DOMAIN rows |-> rows[k][c]]

----------------------------------------------------------------------------
(* STEP 2: the occurrence table                                            *)

Pt(t, la, lo) == [time |-> t, lat |-> la, lon |-> lo]

NoOccurrenceFile == [exists |-> FALSE, columns |-> <<>>, rows |-> <<>>]

OccTable(columns, rows) == [exists |-> TRUE, columns |-> columns, rows |-> rows]

\* Occurrence tables a run may find on disk.  columns is the order in which the
\* file lists the three columns that usecols keeps (read_csv keeps file order).
OccurrenceFiles ==
    { NoOccurrenceFile,
      OccTable(<<"time", "lat", "lon">>, <<>>),
      OccTable(<<"time", "lat", "lon">>, <<Pt(8, 2, 0)>>),
      OccTable(<<"lat", "lon", "time">>,
               <<Pt(4, 2, 0), Pt(6, 3, 1), Pt(12, 0, 2)>>),
      OccTable(<<"time", "lat", "lon">>,
               <<Pt(NaT, 1, 1), Pt(5, 4, 2), Pt(14, 2, 2), Pt(9, NaN, 0),
                 Pt(10, 1, 0)>>) }

\* presence_data.dropna(): rows with any null are removed
DropNullRows(rows, cols) ==
    SelectSeq(rows, LAMBDA r : \A c \in cols : r[c] # NaN)

\* lines 43-49: NaT and null rows dropped, rows outside [T0, T1] dropped
CleanPresence(rows) ==
    SelectSeq(DropNullRows(rows, {"time", "lat", "lon"}),
              LAMBDA r : r.time >= T0 /\ r.time <= T1)

----------------------------------------------------------------------------
(* STEP 3: the pseudo-absence sampler                                      *)

\* datetime.strptime(...).timestamp(): a naive datetime is read as local time,
\* so the epoch second is the wall-clock second minus the UTC offset
LocalTimestamp(ticks, offset) == (ticks \div TicksPerSec) - offset

\* pd.to_datetime(seconds, unit='s'): epoch seconds read as UTC
FromEpochSeconds(s) == s * TicksPerSec

\* np.random.uniform(lo, hi, n)[k]: a value of [lo, hi] fixed by the generator state
Uniform(sd, salt, k, lo, hi) == lo + ((sd * 3 + salt + k) % (hi - lo + 1))

\* np.random.randint(lo, hi, n)[k]: an integer of [lo, hi)
RandInt(sd, k, lo, hi) == lo + ((sd * 2 + k * 3) % (hi - lo))

PseudoAbsence(pres, sd, offset) ==
    IF Len(pres) > 0
    THEN LET num_pseudo_points == Len(pres) * PseudoRatio
             min_lat == SeqMin(Column(pres, "lat"))
             max_lat == SeqMax(Column(pres, "lat"))
             min_lon == SeqMin(Column(pres, "lon"))
             max_lon == SeqMax(Column(pres, "lon"))
             start_ts == LocalTimestamp(T0, offset)
             end_ts == LocalTimestamp(T1, offset)
         IN  [k \in 1..num_pseudo_points |->
                 [time |-> FromEpochSeconds(RandInt(sd, k, start_ts, end_ts)),
                  lat |-> Uniform(sd, 0, k, min_lat, max_lat),
                  lon |-> Uniform(sd, 1, 2 * k, min_lon, max_lon)]]
    ELSE <<>>

\* STEP 4: presence = 1 / presence = 0, then concat
WithPresence(rows, p) ==
    [k \in DOMAIN rows |->
        [c \in DOMAIN rows[k] \cup {"presence"} |->
            IF c = "presence" THEN p ELSE rows[k][c]]]

Combined(pres, pseudo) == WithPresence(pres, 1) \o WithPresence(pseudo, 0)

----------------------------------------------------------------------------
(* STEP 5: the source folders and open_multifile_dataset                   *)

data_sources ==
    << [name |-> "chlor_a", variable |-> "chlor_a", is_gridded |-> TRUE, needs_time |-> TRUE],
       [name |-> "sst", variable |-> "sst", is_gridded |-> TRUE, needs_time |-> TRUE],
       [name |-> "ssha", variable |-> "ssha", is_gridded |-> FALSE, needs_time |-> FALSE],
       [name |-> "sss", variable |-> "sss_smap", is_gridded |-> TRUE, needs_time |-> FALSE] >>

SourceNames == {data_sources[k].name : k \in DOMAIN data_sources}

\* A .nc file of a gridded product: the start date in its name (NaT when the name
\* does not parse), its own time coordinate, whether xr.open_dataset can open it,
\* and its lat x lon values: base + 10 * i + j, NaN at the cells of nan.
GridFile(start, time, ok, base, nan) ==
    [start |-> start, time |-> time, ok |-> ok, base |-> base, nan |-> nan,
     samples |-> <<>>]

\* A .nc file of a track product: its samples along the ground track.
TrackFile(ok, samples) ==
    [start |-> NaT, time |-> NaT, ok |-> ok, base |-> 0, nan |-> {},
     samples |-> samples]

Sample(t, la, lo, v) == [time |-> t, lat |-> la, lon |-> lo, val |-> v]

\* A folder: glob's listing (in the order glob returns it), the lat and lon axes
\* its gridded files share, the name of their data variable and whether the
\* files carry a time coordinate of their own.
GridFolder(listing, lat, lon, variable, has_time) ==
    [kind |-> "grid", listing |-> listing, lat |-> lat, lon |-> lon,
     variable |-> variable, has_time |-> has_time]

TrackFolder(listing, variable) ==
    [kind |-> "track", listing |-> listing, lat |-> <<>>, lon |-> <<>>,
     variable |-> variable, has_time |-> TRUE]

FileValue(f, i, j) == IF <<i, j>> \in f.nan THEN NaN ELSE f.base + 10 * i + j

None == [kind |-> "none"]

Raise(kind) == [raised |-> kind, ds |-> None]
Return(d) == [raised |-> "none", ds |-> d]

\* xr.open_mfdataset(valid_files, combine='nested', concat_dim="time",
\* join='override'): the files' slices in the order given, on the shared axes
OpenMfDataset(folder, valid_files) ==
    IF folder.kind = "grid"
    THEN [kind |-> "grid",
          has_time |-> folder.has_time,
          time |-> [k \in DOMAIN valid_files |-> valid_files[k].time],
          lat |-> folder.lat,
          lon |-> folder.lon,
          variable |-> folder.variable,
          vals |-> [k \in DOMAIN valid_files |->
                      [i \in DOMAIN folder.lat |->
                          [j \in DOMAIN folder.lon |-> FileValue(valid_files[k], i, j)]]]]
    ELSE LET RECURSIVE Cat(_)
             Cat(fs) == IF fs = <<>> THEN <<>> ELSE fs[1].samples \o Cat(Tail(fs))
             all == Cat(valid_files)
         IN  [kind |-> "track",
              has_time |-> TRUE,
              time |-> Column(all, "time"),
              lat |-> Column(all, "lat"),
              lon |-> Column(all, "lon"),
              variable |-> folder.variable,
              vals |-> Column(all, "val")]

\* _build_time_coordinate_from_filenames: the start date of each file's name
\* becomes the time coordinate, in the order of files; any name that does not
\* parse leaves the dataset as it was
BuildTimeCoordinate(d, files) ==
    IF \E k \in DOMAIN files : files[k].start = NaT
    THEN d
    ELSE [d EXCEPT !.has_time = TRUE,
                   !.time = [k \in DOMAIN files |-> files[k].start]]

StrictlyIncreasing(axis) == \A a, b \in DOMAIN axis : a < b => axis[a] < axis[b]
StrictlyDecreasing(axis) == \A a, b \in DOMAIN axis : a < b => axis[a] > axis[b]

\* pandas Index.slice_locs(start, stop) on a monotonic index, both ends
\* inclusive: the positions first..last kept (first > last when none is)
SliceLocs(axis, start, stop) ==
    IF StrictlyIncreasing(axis)
    THEN [first |-> Cardinality({k \in DOMAIN axis : axis[k] < start}) + 1,
          last |-> Cardinality({k \in DOMAIN axis : axis[k] <= stop})]
    ELSE [first |-> Cardinality({k \in DOMAIN axis : axis[k] > start}) + 1,
          last |-> Cardinality({k \in DOMAIN axis : axis[k] >= stop})]

Slice(s, locs) ==
    IF locs.first > locs.last THEN <<>> ELSE SubSeq(s, locs.first, locs.last)

\* A crop that keeps everything
CropNothing(d, lat_bounds, lon_bounds) == d

\* ds.sel(lat=slice(max(lat_bounds), min(lat_bounds)),
\*        lon=slice(min(lon_bounds), max(lon_bounds)))
Crop(d, lat_bounds, lon_bounds) ==
    LET la == SliceLocs(d.lat, SeqMax(lat_bounds), SeqMin(lat_bounds))
        lo == SliceLocs(d.lon, SeqMin(lon_bounds), SeqMax(lon_bounds))
    IN  [d EXCEPT !.lat = Slice(d.lat, la),
                  !.lon = Slice(d.lon, lo),
                  !.vals = [k \in DOMAIN d.vals |->
                              LET rowsKept == Slice(d.vals[k], la)
                              IN  [i \in DOMAIN rowsKept |-> Slice(rowsKept[i], lo)]]]

open_multifile_dataset(folder, lat_bounds, lon_bounds, needs_time_coord) ==
    LET file_list == folder.listing
        valid_files == SelectSeq(file_list, LAMBDA f : f.ok)
        opened == OpenMfDataset(folder, valid_files)
        timed == IF needs_time_coord THEN BuildTimeCoordinate(opened, valid_files)
                 ELSE opened
        cropped_ds == Crop(timed, lat_bounds, lon_bounds)
    IN  IF file_list = <<>> THEN Raise("FileNotFoundError")
        ELSE IF valid_files = <<>> THEN Raise("ValueError")
        ELSE IF timed.kind = "track" THEN Return(timed)   \* except KeyError
        ELSE IF Len(cropped_ds.lat) = 0 \/ Len(cropped_ds.lon) = 0 THEN Return(None)
        ELSE Return(cropped_ds)

----------------------------------------------------------------------------
(* STEP 6: extraction                                                      *)

Monotonic(axis) == StrictlyIncreasing(axis) \/ StrictlyDecreasing(axis)

\* pandas takes position -1 (the last element) where a fill indexer found nothing
Take(axis, loc) == IF loc = 0 THEN axis[Len(axis)] ELSE axis[loc]

ExactLoc(axis, x) == CHOOSE k \in DOMAIN axis : axis[k] = x

\* Index.get_indexer(target, "pad"): the position to the left; 0 when there is none
PadLoc(axis, x) ==
    IF StrictlyIncreasing(axis)
    THEN Cardinality({k \in DOMAIN axis : axis[k] <= x})
    ELSE IF \E k \in DOMAIN axis : axis[k] = x THEN ExactLoc(axis, x)
    ELSE Cardinality({k \in DOMAIN axis : axis[k] > x})

\* Index.get_indexer(target, "backfill"): the position to the right; 0 when none
BackfillLoc(axis, x) ==
    LET n == IF StrictlyIncreasing(axis)
             THEN Cardinality({k \in DOMAIN axis : axis[k] < x}) + 1
             ELSE IF \E k \in DOMAIN axis : axis[k] = x THEN ExactLoc(axis, x)
             ELSE Cardinality({k \in DOMAIN axis : axis[k] > x}) + 1
    IN  IF n > Len(axis) THEN 0 ELSE n

\* A nearest lookup that keeps the left position whenever it is as near
NearestLocTiesLeft(axis, x) ==
    LET left_indexer == PadLoc(axis, x)
        right_indexer == BackfillLoc(axis, x)
        left_distances == Abs(x - Take(axis, left_indexer))
        right_distances == Abs(x - Take(axis, right_indexer))
    IN  IF left_distances <= right_distances \/ right_indexer = 0
        THEN left_indexer ELSE right_indexer

\* Index._get_nearest_indexer: left when strictly nearer on an increasing index,
\* left when nearer or as near on a decreasing one
NearestLoc(axis, x) ==
    LET left_indexer == PadLoc(axis, x)
        right_indexer == BackfillLoc(axis, x)
        left_distances == Abs(x - Take(axis, left_indexer))
        right_distances == Abs(x - Take(axis, right_indexer))
        op == IF StrictlyIncreasing(axis) THEN left_distances < right_distances
              ELSE left_distances <= right_distances
    IN  IF op \/ right_indexer = 0 THEN left_indexer ELSE right_indexer

Extracted(values) == [raised |-> "none", values |-> values]
ExtractRaise(kind) == [raised |-> kind, values |-> <<>>]

\* A lookup that gives null to a point the axes do not cover
ExtractGriddedCovered(d, variable, rows) ==
    IF variable # d.variable THEN ExtractRaise("KeyError")
    ELSE IF ~d.has_time THEN ExtractRaise("KeyError")
    ELSE IF ~(Monotonic(d.time) /\ Monotonic(d.lat) /\ Monotonic(d.lon))
         THEN ExtractRaise("ValueError")
    ELSE Extracted([k \in DOMAIN rows |->
            IF /\ \E a, b \in Range(d.time) : a <= rows[k].time /\ rows[k].time <= b
               /\ \E a, b \in Range(d.lat) : a <= rows[k].lat /\ rows[k].lat <= b
               /\ \E a, b \in Range(d.lon) : a <= rows[k].lon /\ rows[k].lon <= b
            THEN d.vals[NearestLoc(d.time, rows[k].time)]
                       [NearestLoc(d.lat, rows[k].lat)]
                       [NearestLoc(d.lon, rows[k].lon)]
            ELSE NaN])

\* ds[variable].sel(lat=..., lon=..., time=..., method='nearest').values
ExtractGridded(d, variable, rows) ==
    IF variable # d.variable THEN ExtractRaise("KeyError")
    ELSE IF ~d.has_time THEN ExtractRaise("KeyError")
    ELSE IF ~(Monotonic(d.time) /\ Monotonic(d.lat) /\ Monotonic(d.lon))
         THEN ExtractRaise("ValueError")
    ELSE Extracted([k \in DOMAIN rows |->
            d.vals[NearestLoc(d.time, rows[k].time)]
                  [NearestLoc(d.lat, rows[k].lat)]
                  [NearestLoc(d.lon, rows[k].lon)]])

\* values.astype(np.int64) // 10**9
EpochSeconds(ticks) == ticks \div TicksPerSec

\* A distance over latitude and longitude alone
Dist2SpaceOnly(a, b) ==
    (a[2] - b[2]) * (a[2] - b[2]) + (a[3] - b[3]) * (a[3] - b[3])

Dist2(a, b) ==
    (a[1] - b[1]) * (a[1] - b[1]) + (a[2] - b[2]) * (a[2] - b[2])
    + (a[3] - b[3]) * (a[3] - b[3])

\* np.vstack([time, lat, lon]).T
Triples(time, lat, lon) ==
    [k \in DOMAIN time |-> <<EpochSeconds(time[k]), lat[k], lon[k]>>]

\* KDTree(points).query(q, k=1): the position of a point nearest to q (a scan
\* that keeps the first of several equally near points)
RECURSIVE NearestFrom(_, _, _, _)
NearestFrom(points, q, k, best) ==
    IF k > Len(points) THEN best
    ELSE NearestFrom(points, q, k + 1,
                     IF Dist2(points[k], q) < Dist2(points[best], q) THEN k ELSE best)

KDTreeQuery(points, q) == NearestFrom(points, q, 2, 1)

\* _extract_track_data_with_kdtree
ExtractTrack(d, variable, rows) ==
    LET sat_points == Triples(d.time, d.lat, d.lon)
        lookup_points == Triples(Column(rows, "time"), Column(rows, "lat"),
                                 Column(rows, "lon"))
        indices == [k \in DOMAIN rows |-> KDTreeQuery(sat_points, lookup_points[k])]
    IN  IF variable # d.variable THEN ExtractRaise("KeyError")
        ELSE Extracted([k \in DOMAIN rows |-> d.vals[indices[k]]])

\* final_dataset[name] = extracted_values
AddColumn(table, name, values) ==
    [cols |-> IF name \in Range(table.cols) THEN table.cols
              ELSE Append(table.cols, name),
     rows |-> [k \in DOMAIN table.rows |->
                 [c \in DOMAIN table.rows[k] \cup {name} |->
                     IF c = name THEN values[k] ELSE table.rows[k][c]]]]

\* A handler that catches ValueError alone
ExceptValueError(kind) == kind = "ValueError"

\* except Exception: every error the body raises is an Exception
ExceptException(kind) == kind \in {"FileNotFoundError", "ValueError", "KeyError"}

\* One pass of the body of `for name, source in data_sources.items()`
LoopBody(source, folder, pres, table) ==
    LET lat_bounds == <<SeqMin(Column(pres, "lat")), SeqMax(Column(pres, "lat"))>>
        lon_bounds == <<SeqMin(Column(pres, "lon")), SeqMax(Column(pres, "lon"))>>
        opened == open_multifile_dataset(folder, lat_bounds, lon_bounds,
                                         source.needs_time)
        ex == IF source.is_gridded
              THEN ExtractGridded(opened.ds, source.variable, table.rows)
              ELSE ExtractTrack(opened.ds, source.variable, table.rows)
    IN  IF opened.raised # "none"
        THEN [raised |-> opened.raised, assigned |-> FALSE, ds |-> None,
              table |-> table, printed |-> "error"]
        ELSE IF opened.ds = None
        THEN [raised |-> "none", assigned |-> TRUE, ds |-> None,
              table |-> table, printed |-> "skipped"]
        ELSE IF ex.raised # "none"
        THEN [raised |-> ex.raised, assigned |-> TRUE, ds |-> opened.ds,
              table |-> table, printed |-> "error"]
        ELSE [raised |-> "none", assigned |-> TRUE, ds |-> opened.ds,
              table |-> AddColumn(table, source.name, ex.values),
              printed |-> "done"]

----------------------------------------------------------------------------
(* STEP 7 and 8: finalizing and writing                                    *)

\* final_dataset['time'].dt.dayofyear, on the model's calendar of one day to the
\* second and DaysPerYear days to the year
DaysPerYear == 4
DayOfYear(t) == (EpochSeconds(t) % DaysPerYear) + 1

\* integer stand-ins for sin and cos of 2 * pi * day_of_year / 365: defined for
\* every day of the year, never null
DaySin(t) == DayOfYear(t)
DayCos(t) == DaysPerYear - DayOfYear(t)

WithDayFeatures(table) ==
    AddColumn(AddColumn(table, "day_sin",
                        [k \in DOMAIN table.rows |-> DaySin(table.rows[k].time)]),
              "day_cos",
              [k \in DOMAIN table.rows |-> DayCos(table.rows[k].time)])

\* A dropna that removes a row only when all of its values are null
DropNaAll(table) ==
    [table EXCEPT !.rows = SelectSeq(table.rows,
                              LAMBDA r : \E c \in Range(table.cols) : r[c] # NaN)]

\* final_dataset.dropna(inplace=True)
DropNa(table) ==
    [table EXCEPT !.rows = DropNullRows(table.rows, Range(table.cols))]

\* The columns left in the order in which they were added
PresenceInPlace(table) == table

\* cols.insert(len(cols), cols.pop(cols.index('presence')))
PresenceLast(table) ==
    [table EXCEPT !.cols = SelectSeq(table.cols, LAMBDA c : c # "presence")
                           \o <<"presence">>]

NoFile == [exists |-> FALSE, header |-> <<>>, rows |-> <<>>]

\* A to_csv that appends to the file already there
ToCsvAppend(old, table) ==
    [exists |-> TRUE,
     header |-> table.cols,
     rows |-> old.rows \o [k \in DOMAIN table.rows |->
                 [c \in DOMAIN table.cols |-> table.rows[k][table.cols[c]]]]]

\* final_dataset.to_csv(output_path, index=False, compression='gzip'): the
\* header line, then one line per row with the values in header order
ToCsv(old, table) ==
    [exists |-> TRUE,
     header |-> table.cols,
     rows |-> [k \in DOMAIN table.rows |->
                 [c \in DOMAIN table.cols |-> table.rows[k][table.cols[c]]]]]

EmptyTable == [cols |-> <<>>, rows |-> <<>>]

----------------------------------------------------------------------------
(* The downloaders: SST_script_8day.py and script2.py                      *)

Scripts == {"SST_script_8day", "script2"}

\* dates_to_download: the start dates of the files to fetch
dates_to_download == <<"20200101", "20200109">>

Targets == Range(dates_to_download)

Absent == -1            \* os.path.exists(save_path) is False
MinValidSize == 10000   \* a file must be larger than this to count as valid
Retries == 3            \* retries=3
FullBody == 20000       \* size of a complete NetCDF body
SmallBody == 500        \* size of a body that is no NetCDF file

NoPath == "None"        \* download_nc_file returned None

\* os.path.join(DATA_DIR, fname)
SavePath(target) == <<"DATA_DIR", target>>

\* What the server does with one session.get: error is "get" when the request
\* itself raises, "stream" when the body breaks off after `size` bytes
Response(status, html, size, error) ==
    [status |-> status, html |-> html, size |-> size, error |-> error]

Responses ==
    { Response(200, FALSE, FullBody, "none"),
      Response(200, FALSE, SmallBody, "none"),
      Response(200, TRUE, SmallBody, "none"),
      Response(200, FALSE, 0, "stream"),
      Response(200, FALSE, MinValidSize + 1, "stream"),
      Response(404, FALSE, 0, "none"),
      Response(503, FALSE, 0, "none"),
      Response(429, FALSE, 0, "none"),
      Response(0, FALSE, 0, "get") }

Result(d, log, n, ret) == [disk |-> d, log |-> log, attempts |-> n, ret |-> ret]

\* SST_script_8day.py: the existing-file check
SstAlreadyValid(d, target) == d[target] # Absent /\ d[target] > MinValidSize

\* A retry loop that gives up at the first failed attempt, silently
SstAttemptOnce(d, log, target, resps, a) ==
    LET r == resps[a]
        written == [d EXCEPT ![target] = r.size]
    IN  IF r.error = "get" THEN Result(d, log, a, NoPath)
        ELSE IF r.html THEN Result(d, log, a, NoPath)
        ELSE IF r.status = 200
        THEN IF r.error = "stream" THEN Result(written, log, a, NoPath)
             ELSE IF r.size > MinValidSize
             THEN Result(written, log, a, SavePath(target))
             ELSE Result([d EXCEPT ![target] = Absent], log, a, NoPath)
        ELSE IF r.status = 404
        THEN Result(d, Append(log, <<target, "404 Not Found">>), a, NoPath)
        ELSE Result(d, log, a, NoPath)

\* SST_script_8day.py: the retry loop from attempt a on
RECURSIVE SstAttempt(_, _, _, _, _)
SstAttempt(d, log, target, resps, a) ==
    IF a > Retries
    THEN Result(d, Append(log, <<target, "Max retries reached">>), Retries, NoPath)
    ELSE LET r == resps[a]
             written == [d EXCEPT ![target] = r.size]
         IN  IF r.error = "get" THEN SstAttempt(d, log, target, resps, a + 1)
             ELSE IF r.html THEN Result(d, log, a, NoPath)
             ELSE IF r.status = 200
             THEN IF r.error = "stream"
                  THEN SstAttempt(written, log, target, resps, a + 1)
                  ELSE IF r.size > MinValidSize
                  THEN Result(written, log, a, SavePath(target))
                  ELSE Result([d EXCEPT ![target] = Absent], log, a, NoPath)
             ELSE IF r.status = 404
             THEN Result(d, Append(log, <<target, "404 Not Found">>), a, NoPath)
             ELSE SstAttempt(d, log, target, resps, a + 1)

\* SST_script_8day.py: download_nc_file
SstDownload(d, log, target, resps) ==
    IF SstAlreadyValid(d, target) THEN Result(d, log, 0, SavePath(target))
    ELSE SstAttempt(d, log, target, resps, 1)

\* script2.py: the existing-file check
Script2AlreadyThere(d, target) == d[target] # Absent

\* script2.py: the retry loop from attempt a on
RECURSIVE Script2Attempt(_, _, _, _, _)
Script2Attempt(d, log, target, resps, a) ==
    IF a > Retries
    THEN Result(d, Append(log, <<target, "network/error">>), Retries, NoPath)
    ELSE LET r == resps[a]
             written == [d EXCEPT ![target] = r.size]
         IN  IF r.error = "get" THEN Script2Attempt(d, log, target, resps, a + 1)
             ELSE IF r.status = 200
             THEN IF r.error = "stream"
                  THEN Script2Attempt(written, log, target, resps, a + 1)
                  ELSE Result(written, log, a, SavePath(target))
             ELSE IF r.status = 404
             THEN Result(d, Append(log, <<target, "">>), a, NoPath)
             ELSE Script2Attempt(d, log, target, resps, a + 1)

\* script2.py: download_nc_file
Script2Download(d, log, target, resps) ==
    IF Script2AlreadyThere(d, target) THEN Result(d, log, 0, SavePath(target))
    ELSE Script2Attempt(d, log, target, resps, 1)

download_nc_file(s, d, log, target, resps) ==
    IF s = "SST_script_8day" THEN SstDownload(d, log, target, resps)
    ELSE Script2Download(d, log, target, resps)

----------------------------------------------------------------------------
(* The folders a run may find on disk                                      *)

LatDesc == <<4, 2, 0>>       \* a north-to-south latitude axis
LatNorth == <<4, 2>>         \* a grid that stops at latitude 2
LatAsc == <<0, 2, 4>>        \* a south-to-north latitude axis
LonAsc == <<0, 2>>

ChlFolders ==
    { \* two composites, listed in date order
      GridFolder(<<GridFile(4, NaT, TRUE, 100, {}), GridFile(8, NaT, TRUE, 200, {})>>,
                 LatDesc, LonAsc, "chlor_a", FALSE),
      \* an empty directory
      GridFolder(<<>>, LatDesc, LonAsc, "chlor_a", FALSE),
      \* a grid far from every occurrence
      GridFolder(<<GridFile(4, NaT, TRUE, 100, {})>>, <<9, 8>>, <<7, 8>>, "chlor_a", FALSE),
      \* a corrupt file among three listed out of date order
      GridFolder(<<GridFile(4, NaT, TRUE, 100, {}), GridFile(6, NaT, FALSE, 0, {}),
                   GridFile(12, NaT, TRUE, 300, {}), GridFile(8, NaT, TRUE, 200, {})>>,
                 LatDesc, LonAsc, "chlor_a", FALSE) }

SstFolders ==
    { \* a grid north of latitude 2, cloud over some cells
      GridFolder(<<GridFile(4, NaT, TRUE, 100, {<<1, 2>>}),
                   GridFile(8, NaT, TRUE, 200, {<<2, 1>>})>>,
                 LatNorth, LonAsc, "sst", FALSE),
      \* every file corrupt
      GridFolder(<<GridFile(4, NaT, FALSE, 0, {}), GridFile(8, NaT, FALSE, 0, {})>>,
                 LatDesc, LonAsc, "sst", FALSE),
      \* two composites, listed latest first
      GridFolder(<<GridFile(8, NaT, TRUE, 200, {}), GridFile(4, NaT, TRUE, 100, {})>>,
                 LatDesc, LonAsc, "sst", FALSE) }

SshaFolders ==
    { \* two passes over the occurrences
      TrackFolder(<<TrackFile(TRUE, <<Sample(12, 2, 0, 50), Sample(4, 3, 1, 51)>>),
                    TrackFile(FALSE, <<Sample(8, 2, 0, 54)>>),
                    TrackFile(TRUE, <<Sample(13, 0, 1, NaN), Sample(5, 1, 6, 53)>>)>>,
                  "ssha"),
      \* a pass far from every occurrence
      TrackFolder(<<TrackFile(TRUE, <<Sample(8, 9, 9, 60), Sample(4, 8, 7, 61)>>)>>,
                  "ssha"),
      \* an empty directory
      TrackFolder(<<>>, "ssha") }

SssFolders ==
    { \* files with a time coordinate of their own
      GridFolder(<<GridFile(NaT, 6, TRUE, 100, {}), GridFile(NaT, 10, TRUE, 200, {<<2, 2>>})>>,
                 LatDesc, LonAsc, "sss_smap", TRUE),
      \* a south-to-north latitude axis
      GridFolder(<<GridFile(NaT, 6, TRUE, 100, {})>>, LatAsc, LonAsc, "sss_smap", TRUE),
      \* files of another product: no variable sss_smap
      GridFolder(<<GridFile(NaT, 6, TRUE, 100, {})>>, LatDesc, LonAsc, "sss", TRUE) }

FolderChoices ==
    { [n \in SourceNames |->
          CASE n = "chlor_a" -> a [] n = "sst" -> b [] n = "ssha" -> c [] OTHER -> d]
      : a \in ChlFolders, b \in SstFolders, c \in SshaFolders, d \in SssFolders }

----------------------------------------------------------------------------
(* The run of final_dataset.py                                             *)

NoOutcome == [n \in SourceNames |-> "pending"]

\* download_and_attach_sss.py: the granules the CMR search can return
Granules == {"g1.nc", "g2.nc"}

\* month_windows(START, END)
windows == <<"w1", "w2">>

\* os.path.exists(OUT_INDEX) is False
NoIndex == [exists |-> FALSE, rows |-> <<>>]
NoHref == "none"

\* The granule downloader is not running
GranulesIdle ==
    /\ out_index = NoIndex
    /\ index_df = <<>>
    /\ all_new = <<>>
    /\ g_pc = "start"
    /\ g_i = 1
    /\ data_sss = [h \in Granules |-> "absent"]
    /\ debug_files = {}
    /\ listed = {}
    /\ run_requests = {}
    /\ last_request = NoHref
    /\ g_runs = 0

\* No downloader is running
DownloaderIdle ==
    /\ script = "SST_script_8day"
    /\ disk = [t \in Targets |-> Absent]
    /\ missing_log = <<>>
    /\ dl_pc = "start"
    /\ dl_i = 1
    /\ attempts = 0
    /\ served = <<>>
    /\ returned = NoPath
    /\ nc_files = <<>>
    /\ runs = 0

Init ==
    /\ DownloaderIdle
    /\ GranulesIdle
    /\ occurrence_file \in OccurrenceFiles
    /\ folders \in FolderChoices
    /\ tz \in TzOffsets
    /\ pc = "start"
    /\ seed = 0
    /\ presence_data = <<>>
    /\ pseudo_absence_data = <<>>
    /\ combined_points = <<>>
    /\ final_dataset = EmptyTable
    /\ src_i = 1
    /\ ds = None
    /\ outcome = NoOutcome
    /\ output_file = NoFile

\* The script starts and read_csv raises: the occurrence file is missing
LoadFails ==
    /\ pc \in {"start", "done", "crashed"}
    /\ ~occurrence_file.exists
    /\ pc' = "crashed"
    /\ presence_data' = <<>>
    /\ pseudo_absence_data' = <<>>
    /\ combined_points' = <<>>
    /\ final_dataset' = EmptyTable
    /\ src_i' = 1
    /\ ds' = None
    /\ outcome' = NoOutcome
    /\ UNCHANGED <<occurrence_file, folders, tz, seed, output_file, dlVars, granVars>>

\* The script starts: STEP 2, 3 and 4, up to the test `len(combined_points) > 0`
PreparePoints ==
    /\ pc \in {"start", "done", "crashed"}
    /\ occurrence_file.exists
    /\ \E sd \in 0..MaxSeed :
        LET pres == CleanPresence(occurrence_file.rows)
            pseudo == PseudoAbsence(pres, sd, tz)
            comb == Combined(pres, pseudo)
        IN  /\ seed' = sd
            /\ presence_data' = pres
            /\ pseudo_absence_data' = pseudo
            /\ combined_points' = comb
            /\ IF Len(comb) > 0
               THEN /\ final_dataset' = [cols |-> Append(occurrence_file.columns, "presence"),
                                         rows |-> comb]
                    /\ pc' = "extract"
               ELSE /\ final_dataset' = EmptyTable
                    /\ pc' = "done"
    /\ src_i' = 1
    /\ ds' = None
    /\ outcome' = NoOutcome
    /\ UNCHANGED <<occurrence_file, folders, tz, output_file, dlVars, granVars>>

\* One iteration of the loop over data_sources
ProcessSource ==
    /\ pc = "extract"
    /\ LET source == data_sources[src_i]
           body == LoopBody(source, folders[source.name], presence_data, final_dataset)
       IN  /\ ds' = IF body.assigned THEN body.ds ELSE ds
           /\ final_dataset' = body.table
           /\ outcome' = [outcome EXCEPT ![source.name] = body.printed]
           /\ pc' = IF body.raised # "none" /\ ~ExceptException(body.raised)
                    THEN "crashed"
                    ELSE IF src_i = Len(data_sources) THEN "finalize" ELSE "extract"
    /\ src_i' = src_i + 1
    /\ UNCHANGED <<occurrence_file, folders, tz, seed, presence_data,
                   pseudo_absence_data, combined_points, output_file, dlVars, granVars>>

\* STEP 7 and 8: day features, dropna, column order, to_csv
Finalize ==
    /\ pc = "finalize"
    /\ LET complete == DropNa(WithDayFeatures(final_dataset))
       IN  IF complete.rows # <<>>
           THEN /\ final_dataset' = PresenceLast(complete)
                /\ output_file' = ToCsv(output_file, PresenceLast(complete))
           ELSE /\ final_dataset' = complete
                /\ output_file' = output_file
    /\ pc' = "done"
    /\ UNCHANGED <<occurrence_file, folders, tz, seed, presence_data,
                   pseudo_absence_data, combined_points, src_i, ds, outcome, dlVars, granVars>>

Next == LoadFails \/ PreparePoints \/ ProcessSource \/ Finalize

Spec == Init /\ [][Next]_vars

----------------------------------------------------------------------------
(* The runs of a downloader script                                         *)

\* final_dataset.py is not running
JoinIdle ==
    /\ occurrence_file = NoOccurrenceFile
    /\ folders = [n \in SourceNames |-> GridFolder(<<>>, <<>>, <<>>, n, FALSE)]
    /\ tz = 0
    /\ pc = "start"
    /\ seed = 0
    /\ presence_data = <<>>
    /\ pseudo_absence_data = <<>>
    /\ combined_points = <<>>
    /\ final_dataset = EmptyTable
    /\ src_i = 1
    /\ ds = None
    /\ outcome = NoOutcome
    /\ output_file = NoFile

InitDownload ==
    /\ JoinIdle
    /\ GranulesIdle
    /\ script \in Scripts
    /\ disk = [t \in Targets |-> Absent]
    /\ missing_log = <<>>
    /\ dl_pc = "start"
    /\ dl_i = 1
    /\ attempts = 0
    /\ served = <<>>
    /\ returned = NoPath
    /\ nc_files = <<>>
    /\ runs = 0

\* A request that is never made gets no answer
NoAnswer == Response(0, FALSE, 0, "get")

\* The answers the server gives to the session.get calls of one
\* download_nc_file: each request made is answered by any of Responses
Answers(s, d, log, target) ==
    LET Made(resps) == download_nc_file(s, d, log, target, resps).attempts
        A0 == {<<NoAnswer, NoAnswer, NoAnswer>>}
        A1 == UNION { IF Made(a) >= 1 THEN {<<r, NoAnswer, NoAnswer>> : r \in Responses}
                      ELSE {a} : a \in A0 }
        A2 == UNION { IF Made(a) >= 2 THEN {<<a[1], r, NoAnswer>> : r \in Responses}
                      ELSE {a} : a \in A1 }
    IN  UNION { IF Made(a) >= 3 THEN {<<a[1], a[2], r>> : r \in Responses}
                ELSE {a} : a \in A2 }

\* The script is started: the lines before the download loop
StartDownloads ==
    /\ dl_pc \in {"start", "done"}
    /\ runs < MaxRuns
    /\ runs' = runs + 1
    /\ dl_pc' = "loop"
    /\ dl_i' = 1
    /\ nc_files' = <<>>
    /\ attempts' = 0
    /\ served' = <<>>
    /\ returned' = NoPath
    /\ UNCHANGED <<script, disk, missing_log, joinVars, granVars>>

\* One iteration of the download loop: download_nc_file(d) and the append
DownloadNext ==
    /\ dl_pc = "loop"
    /\ \E resps \in Answers(script, disk, missing_log, dates_to_download[dl_i]) :
          LET target == dates_to_download[dl_i]
              res == download_nc_file(script, disk, missing_log, target, resps)
          IN  /\ disk' = res.disk
              /\ missing_log' = res.log
              /\ attempts' = res.attempts
              /\ served' = SubSeq(resps, 1, res.attempts)
              /\ returned' = res.ret
              /\ nc_files' = IF res.ret # NoPath THEN Append(nc_files, res.ret)
                             ELSE nc_files
    /\ dl_i' = dl_i + 1
    /\ dl_pc' = IF dl_i = Len(dates_to_download) THEN "done" ELSE "loop"
    /\ UNCHANGED <<script, runs, joinVars, granVars>>

NextDownload == StartDownloads \/ DownloadNext

SpecDownload == InitDownload /\ [][NextDownload]_vars

\* The file sizes earlier runs of a script can have left in DATA_DIR
Leftovers(s) ==
    {Absent, 0, MinValidSize + 1, FullBody}
        \cup (IF s = "script2" THEN {SmallBody} ELSE {})

\* One run of a script over what earlier runs left in DATA_DIR
InitRun ==
    /\ JoinIdle
    /\ GranulesIdle
    /\ script \in Scripts
    /\ disk \in [Targets -> Leftovers(script)]
    /\ missing_log = <<>>
    /\ dl_pc = "start"
    /\ dl_i = 1
    /\ attempts = 0
    /\ served = <<>>
    /\ returned = NoPath
    /\ nc_files = <<>>
    /\ runs = 0

StartRun == runs = 0 /\ StartDownloads

NextRun == StartRun \/ DownloadNext

SpecRun == InitRun /\ [][NextRun]_vars

----------------------------------------------------------------------------
(* download_and_attach_sss.py: the granule downloader                      *)

Granule(href) == [granule_id |-> href, href |-> href]

Row(g, local) == [granule_id |-> g.granule_id, href |-> g.href, local_path |-> local]

\* os.path.join(save_dir, fname)
LocalPath(href) == <<"data_sss", href>>

RECURSIVE Perms(_)
Perms(S) ==
    IF S = {} THEN {<<>>}
    ELSE UNION { {<<x>> \o p : p \in Perms(S \ {x})} : x \in S }

\* fetch_granules_for_window: what one monthly query can return: the granules
\* of the window in any order, none when the query failed or found nothing
WindowResults ==
    UNION { {[k \in DOMAIN p |-> Granule(p[k])] : p \in Perms(S)} : S \in SUBSET Granules }

InIndex(index, href) == \E k \in DOMAIN index : index[k].href = href

\* dedupe by href with index and existing
RECURSIVE Dedupe(_, _, _)
Dedupe(index, new, g_list) ==
    IF g_list = <<>> THEN new
    ELSE LET g == Head(g_list)
         IN  IF InIndex(index, g.href) \/ InIndex(new, g.href)
             THEN Dedupe(index, new, Tail(g_list))
             ELSE Dedupe(index, Append(new, g), Tail(g_list))

\* for (s,e) in windows: the granules collected from the windows' results
RECURSIVE Collect(_, _, _)
Collect(index, new, results) ==
    IF results = <<>> THEN new
    ELSE Collect(index, Dedupe(index, new, Head(results)), Tail(results))

\* What the server does with the session.get of download_href, after the
\* adapter's own retries: the file, another status, an error on the request,
\* or a body that breaks off
HrefResponses == {"200", "status", "get error", "stream error"}

\* download_href
download_href(href, dir, debug, resp) ==
    IF dir[href] # "absent"
    THEN [dir |-> dir, debug |-> debug, local |-> LocalPath(href), requested |-> FALSE]
    ELSE IF resp = "200"
    THEN [dir |-> [dir EXCEPT ![href] = "full"], debug |-> debug,
          local |-> LocalPath(href), requested |-> TRUE]
    ELSE IF resp = "stream error"
    THEN [dir |-> [dir EXCEPT ![href] = "partial"], debug |-> debug,
          local |-> NoPath, requested |-> TRUE]
    ELSE IF resp = "status"
    THEN [dir |-> dir, debug |-> debug \cup {href}, local |-> NoPath, requested |-> TRUE]
    ELSE [dir |-> dir, debug |-> debug, local |-> NoPath, requested |-> TRUE]

InitGranules ==
    /\ JoinIdle
    /\ DownloaderIdle
    /\ GranulesIdle

\* A run starts: the index is loaded and the windows are queried (lines 139-162)
StartGranules ==
    /\ g_pc \in {"start", "done", "interrupted"}
    /\ g_runs < MaxRuns
    /\ g_runs' = g_runs + 1
    /\ index_df' = IF out_index.exists THEN out_index.rows ELSE <<>>
    /\ \E results \in [DOMAIN windows -> WindowResults] :
          /\ all_new' = Collect(index_df', <<>>, results)
          /\ listed' = UNION { {results[w][k].href : k \in DOMAIN results[w]} :
                               w \in DOMAIN windows }
    /\ g_i' = 1
    /\ g_pc' = IF all_new' = <<>> THEN "done" ELSE "download"
    /\ run_requests' = {}
    /\ last_request' = NoHref
    /\ UNCHANGED <<out_index, data_sss, debug_files, joinVars, dlVars>>

\* One iteration of the download loop (lines 165-174)
DownloadGranule ==
    /\ g_pc = "download"
    /\ \E resp \in HrefResponses :
          LET g == all_new[g_i]
              res == download_href(g.href, data_sss, debug_files, resp)
              row == Row(g, res.local)
          IN  /\ data_sss' = res.dir
              /\ debug_files' = res.debug
              /\ index_df' = Append(index_df, row)
              /\ out_index' = [exists |-> TRUE, rows |-> Append(index_df, row)]
              /\ last_request' = IF res.requested THEN g.href ELSE NoHref
              /\ run_requests' = IF res.requested THEN run_requests \cup {g.href}
                                 ELSE run_requests
    /\ g_i' = g_i + 1
    /\ g_pc' = IF g_i = Len(all_new) THEN "done" ELSE "download"
    /\ UNCHANGED <<all_new, listed, g_runs, joinVars, dlVars>>

\* The run is stopped between two downloads
InterruptBetween ==
    /\ g_pc = "download"
    /\ g_pc' = "interrupted"
    /\ last_request' = NoHref
    /\ UNCHANGED <<out_index, index_df, all_new, g_i, data_sss, debug_files, listed,
                   run_requests, g_runs, joinVars, dlVars>>

\* The run is stopped while a body is being written (lines 121-124)
InterruptDownload ==
    /\ g_pc = "download"
    /\ data_sss[all_new[g_i].href] = "absent"
    /\ data_sss' = [data_sss EXCEPT ![all_new[g_i].href] = "partial"]
    /\ last_request' = all_new[g_i].href
    /\ run_requests' = run_requests \cup {all_new[g_i].href}
    /\ g_pc' = "interrupted"
    /\ UNCHANGED <<out_index, index_df, all_new, g_i, debug_files, listed, g_runs,
                   joinVars, dlVars>>

NextGranules == StartGranules \/ DownloadGranule \/ InterruptBetween \/ InterruptDownload

SpecGranules == InitGranules /\ [][NextGranules]_vars

----------------------------------------------------------------------------
(* The claims                                                              *)

\* The source the loop handled last, once it has handled one
LastSource == data_sources[src_i - 1]

JustProcessed(source) ==
    /\ pc \in {"extract", "finalize"}
    /\ src_i > 1
    /\ LastSource = source
    /\ outcome[source.name] = "done"

Covers(axis, x) == \E a, b \in Range(axis) : a <= x /\ x <= b

AtMidpoint(axis, x) ==
    \E k \in 1..(Len(axis) - 1) : axis[k] + axis[k + 1] = 2 * x

Nearer(axis, x, i) ==
    \A j \in DOMAIN axis : Abs(axis[i] - x) <= Abs(axis[j] - x)

\* i is the position of the axis value nearest to x, the larger axis value of two
\* equally near ones
NearestTieLarger(axis, x, i) ==
    /\ Nearer(axis, x, i)
    /\ \A j \in DOMAIN axis :
          j # i /\ Abs(axis[j] - x) = Abs(axis[i] - x) => axis[i] > axis[j]

\* i is the position of the axis value nearest to x, the lower position of two
\* equally near ones
NearestTieLowerIndex(axis, x, i) ==
    /\ Nearer(axis, x, i)
    /\ \A j \in DOMAIN axis :
          j # i /\ Abs(axis[j] - x) = Abs(axis[i] - x) => i < j

GriddedJoinAs(Pick(_, _, _)) ==
    \A s \in Range(data_sources) :
        s.is_gridded /\ JustProcessed(s) =>
            \A k \in DOMAIN final_dataset.rows :
                LET r == final_dataset.rows[k]
                IN  Covers(ds.time, r.time) /\ Covers(ds.lat, r.lat)
                    /\ Covers(ds.lon, r.lon) =>
                        \E ti \in DOMAIN ds.time, i \in DOMAIN ds.lat, j \in DOMAIN ds.lon :
                            /\ Pick(ds.time, r.time, ti)
                            /\ Pick(ds.lat, r.lat, i)
                            /\ Pick(ds.lon, r.lon, j)
                            /\ r[s.name] = ds.vals[ti][i][j]

RowSampleDist2(r, d, m) ==
    LET dt == (r.time \div TicksPerSec) - (d.time[m] \div TicksPerSec)
        dlat == r.lat - d.lat[m]
        dlon == r.lon - d.lon[m]
    IN  dt * dt + dlat * dlat + dlon * dlon

TrackSource == CHOOSE s \in Range(data_sources) : ~s.is_gridded

\* C2: for every point and the track source, the value attached to the point's
\* row is the value of a track sample at the least straight-line distance from
\* the row's own (seconds since epoch, latitude, longitude) triple, no coordinate
\* scaled.
C2_TrackJoinNearestUnscaled ==
    JustProcessed(TrackSource) =>
        \A k \in DOMAIN final_dataset.rows :
            LET r == final_dataset.rows[k]
            IN  \E m \in DOMAIN ds.vals :
                    /\ r[TrackSource.name] = ds.vals[m]
                    /\ \A n \in DOMAIN ds.vals :
                          RowSampleDist2(r, ds, m) <= RowSampleDist2(r, ds, n)

\* C2 witness: the track source was just joined and some row got the value of a
\* sample that is not the nearest in latitude and longitude: the time difference
\* decided.
C2_Witness ==
    /\ JustProcessed(TrackSource)
    /\ \E k \in DOMAIN final_dataset.rows :
          LET r == final_dataset.rows[k]
          IN  \E m, n \in DOMAIN ds.vals :
                  /\ r[TrackSource.name] = ds.vals[m]
                  /\ \A o \in DOMAIN ds.vals : RowSampleDist2(r, ds, m) <= RowSampleDist2(r, ds, o)
                  /\ ds.vals[n] # ds.vals[m]
                  /\ (r.lat - ds.lat[n]) * (r.lat - ds.lat[n])
                       + (r.lon - ds.lon[n]) * (r.lon - ds.lon[n])
                     < (r.lat - ds.lat[m]) * (r.lat - ds.lat[m])
                       + (r.lon - ds.lon[m]) * (r.lon - ds.lon[m])

----------------------------------------------------------------------------
(* Sources as the environment presents them                                *)

FolderOf(source) == folders[source.name]

ValidFiles(folder) == SelectSeq(folder.listing, LAMBDA f : f.ok)

\* The latitudes and longitudes at which a source has data
SourceLats(folder) ==
    IF folder.kind = "grid" THEN Range(folder.lat)
    ELSE UNION {{f.samples[k].lat : k \in DOMAIN f.samples} : f \in Range(ValidFiles(folder))}

SourceLons(folder) ==
    IF folder.kind = "grid" THEN Range(folder.lon)
    ELSE UNION {{f.samples[k].lon : k \in DOMAIN f.samples} : f \in Range(ValidFiles(folder))}

PointLats == {combined_points[k].lat : k \in DOMAIN combined_points}
PointLons == {combined_points[k].lon : k \in DOMAIN combined_points}

\* Two sets of coordinates whose ranges [min, max] share no value
Apart(A, B) == (\A a \in A, b \in B : a < b) \/ (\A a \in A, b \in B : a > b)

\* The source has data and its bounding box shares nothing with the points' one
NoOverlap(folder) ==
    /\ ValidFiles(folder) # <<>>
    /\ \/ Apart(SourceLats(folder), PointLats)
       \/ Apart(SourceLons(folder), PointLons)

\* The sources the loop of this run has handled so far
Handled == IF pc \in {"extract", "finalize", "done"}
           THEN {data_sources[k] : k \in 1..(src_i - 1)} ELSE {}

LoopOver == pc \in {"finalize", "done"} /\ src_i > Len(data_sources)

AttachedIn(table, name) == name \in Range(table.cols)

Attached(name) == AttachedIn(final_dataset, name)

\* An exception escaped the loop over the sources
LoopCrashed == pc = "crashed" /\ src_i > 1

\* C3 as stated: a source whose bounding box has no overlap with the points'
\* bounding box is skipped for all points: it adds no column, no exception
\* escapes, and the remaining sources are still processed.
C3_NoOverlapSkipped ==
    /\ \A s \in Handled :
          NoOverlap(FolderOf(s)) =>
              /\ ~Attached(s.name)
              /\ outcome[s.name] = "skipped"
    /\ ~LoopCrashed
    /\ LoopOver => \A n \in SourceNames : outcome[n] # "pending"

\* C3 as amended: a gridded source (latitude and longitude are its axes, so the
\* pre-crop applies) whose bounding box has no overlap with the points' bounding
\* box is skipped for all points: it adds no column, no exception escapes, and the
\* remaining sources are still processed.  A track source is never cropped.
C3_GriddedNoOverlapSkipped ==
    /\ \A s \in Handled :
          FolderOf(s).kind = "grid" /\ NoOverlap(FolderOf(s)) =>
              /\ ~Attached(s.name)
              /\ outcome[s.name] = "skipped"
    /\ ~LoopCrashed
    /\ LoopOver => \A n \in SourceNames : outcome[n] # "pending"

\* C3 witness: the loop is over, a gridded source without overlap was skipped and
\* a source after it was attached.
C3_Witness ==
    /\ LoopOver
    /\ \E a, b \in DOMAIN data_sources :
          /\ a < b
          /\ FolderOf(data_sources[a]).kind = "grid"
          /\ NoOverlap(FolderOf(data_sources[a]))
          /\ outcome[data_sources[a].name] = "skipped"
          /\ outcome[data_sources[b].name] = "done"
          /\ Attached(data_sources[b].name)

\* The time axis a gridded source ends up with: the start dates in the file names
\* when the source needs them and all of them parse, else the files' own
TimeAxisOf(source, folder) ==
    LET files == ValidFiles(folder)
    IN  IF source.needs_time /\ \A k \in DOMAIN files : files[k].start # NaT
        THEN [k \in DOMAIN files |-> files[k].start]
        ELSE IF folder.has_time THEN [k \in DOMAIN files |-> files[k].time]
        ELSE <<>>

\* The source fails to load or to index: an empty directory, no file that opens,
\* files without the variable, or a time axis that cannot be searched
Fails(source, folder) ==
    \/ folder.listing = <<>>
    \/ ValidFiles(folder) = <<>>
    \/ folder.variable # source.variable
    \/ /\ folder.kind = "grid"
       /\ LET t == TimeAxisOf(source, folder)
          IN  t = <<>> \/ ~(StrictlyIncreasing(t) \/ StrictlyDecreasing(t))

\* C4: a source that fails to load or index leaves the table as it was (no column
\* added, the columns attached before and the points unchanged), nothing escapes
\* the loop, and the loop goes on to the next source.
C4_FailureIsolated ==
    [][ pc = "extract" /\ Fails(data_sources[src_i], FolderOf(data_sources[src_i])) =>
            /\ final_dataset' = final_dataset
            /\ combined_points' = combined_points
            /\ ~AttachedIn(final_dataset', data_sources[src_i].name)
            /\ src_i' = src_i + 1
            /\ pc' = IF src_i = Len(data_sources) THEN "finalize" ELSE "extract" ]_vars

\* C4 witness: the loop is over; a source was attached, a later one failed (no
\* column) and one after that was attached.
C4_Witness ==
    /\ LoopOver
    /\ \E a, b, c \in DOMAIN data_sources :
          /\ a < b /\ b < c
          /\ Attached(data_sources[a].name)
          /\ Fails(data_sources[b], FolderOf(data_sources[b]))
          /\ outcome[data_sources[b].name] = "error"
          /\ ~Attached(data_sources[b].name)
          /\ Attached(data_sources[c].name)

AttachedSources(table) == SourceNames \cap Range(table.cols)

Complete(table, r) == \A c \in AttachedSources(table) : r[c] # NaN

\* Row r of the table before finalizing is row q of the table after it
SameRow(table, r, q) == \A c \in Range(table.cols) : q[c] = r[c]

\* C5: the final result is exactly the rows of the combined point table in which
\* every attached source column is non-null, in their order: no row with a null
\* attached value survives and no complete row is removed.
C5_RowCompleteness ==
    [][ pc = "finalize" =>
            LET kept == SelectSeq(final_dataset.rows,
                                  LAMBDA r : Complete(final_dataset, r))
            IN  /\ Len(final_dataset.rows) = Len(combined_points)
                /\ \A k \in DOMAIN combined_points :
                      \A c \in DOMAIN combined_points[k] :
                          final_dataset.rows[k][c] = combined_points[k][c]
                /\ Len(final_dataset'.rows) = Len(kept)
                /\ \A k \in DOMAIN kept :
                      SameRow(final_dataset, kept[k], final_dataset'.rows[k]) ]_vars

\* C5 witness: a run finalized a table of which some rows had a null attached
\* value and some had none.
C5_Witness ==
    /\ pc = "done" /\ LoopOver
    /\ AttachedSources(final_dataset) # {}
    /\ Len(final_dataset.rows) > 0
    /\ Len(final_dataset.rows) < Len(combined_points)

MinOf(S) == CHOOSE a \in S : \A b \in S : a <= b
MaxOf(S) == CHOOSE a \in S : \A b \in S : a >= b

\* The point of row r lies outside the bounding box of the source's grid
OutsideBox(folder, r) ==
    \/ r.lat < MinOf(SourceLats(folder)) \/ r.lat > MaxOf(SourceLats(folder))
    \/ r.lon < MinOf(SourceLons(folder)) \/ r.lon > MaxOf(SourceLons(folder))

GriddedAttached ==
    {s \in Handled : FolderOf(s).kind = "grid" /\ Attached(s.name)}

\* C6 as stated: a point outside a gridded source's bounding box gets a null value
\* in that source's column and is therefore not in the final output.
C6_OutsidePointNull ==
    \A s \in GriddedAttached :
        \A k \in DOMAIN final_dataset.rows :
            OutsideBox(FolderOf(s), final_dataset.rows[k]) =>
                pc # "done" /\ final_dataset.rows[k][s.name] = NaN

\* x is on a node of the axis, halfway between two adjacent nodes, or beyond its ends
Placed(axis, x) ==
    \/ x \in Range(axis)
    \/ AtMidpoint(axis, x)
    \/ \A k \in DOMAIN axis : x < axis[k]
    \/ \A k \in DOMAIN axis : x > axis[k]

\* The value is that of a cell of the source's whole grid that is, along every
\* axis on which the point is placed, at the least distance from the point
NearestCellValue(s, r, v) ==
    LET f == FolderOf(s)
        files == ValidFiles(f)
        t == TimeAxisOf(s, f)
    IN  \E ti \in DOMAIN files, i \in DOMAIN f.lat, j \in DOMAIN f.lon :
            /\ v = FileValue(files[ti], i, j)
            /\ Placed(t, r.time) => Nearer(t, r.time, ti)
            /\ Placed(f.lat, r.lat) => Nearer(f.lat, r.lat, i)
            /\ Placed(f.lon, r.lon) => Nearer(f.lon, r.lon, j)

\* C6 as amended: a point outside a gridded source's bounding box gets the value
\* of the source's nearest cell (an edge cell), like a point on a grid node or on
\* an axis midpoint, and it stays in the final output unless one of its attached
\* values is null.
C6_OutsidePointGetsEdgeCell ==
    [][ pc = "finalize" =>
            \A s \in GriddedAttached :
                \A k \in DOMAIN final_dataset.rows :
                    LET r == final_dataset.rows[k]
                    IN  /\ NearestCellValue(s, r, r[s.name])
                        /\ OutsideBox(FolderOf(s), r) /\ Complete(final_dataset, r) =>
                              \E m \in DOMAIN final_dataset'.rows :
                                  SameRow(final_dataset, r, final_dataset'.rows[m]) ]_vars

\* C6 witness: the final output of a run holds a point outside the bounding box of
\* a gridded source that was attached, with a value in that source's column, and
\* a point on an axis midpoint.
C6_Witness ==
    /\ pc = "done" /\ LoopOver
    /\ \E s \in GriddedAttached :
          /\ \E k \in DOMAIN final_dataset.rows :
                /\ OutsideBox(FolderOf(s), final_dataset.rows[k])
                /\ final_dataset.rows[k][s.name] # NaN
          /\ \E k \in DOMAIN final_dataset.rows :
                AtMidpoint(FolderOf(s).lat, final_dataset.rows[k].lat)

FullSchema ==
    <<"time", "lat", "lon", "chlor_a", "sst", "ssha", "sss", "day_sin", "day_cos",
      "presence">>

AttachedInOrder ==
    SelectSeq([k \in DOMAIN data_sources |-> data_sources[k].name],
              LAMBDA n : outcome[n] = "done")

WroteFile == pc = "done" /\ LoopOver /\ final_dataset.rows # <<>>

FileHolds(file, table) ==
    /\ file.exists
    /\ file.header = table.cols
    /\ Len(file.rows) = Len(table.rows)
    /\ \A k \in DOMAIN table.rows :
          \A c \in DOMAIN file.header :
              file.rows[k][c] = table.rows[k][file.header[c]]

\* C9 as stated: after any sequence of runs the persisted output table is the
\* joined table of the most recent run alone; nothing of an earlier run remains.
C9_LatestRunOnly ==
    pc = "done" =>
        IF final_dataset.rows # <<>> THEN FileHolds(output_file, final_dataset)
        ELSE ~output_file.exists

\* C9 as amended: a run whose joined table is non-empty replaces the persisted
\* output table by that table alone (nothing is appended, nothing of an earlier
\* run remains); a run whose joined table is empty, or that has no points, writes
\* nothing and leaves the table of the earlier run in place.
C9_ReplacedWhenNonEmpty ==
    [][ IF pc' = "done" /\ final_dataset'.rows # <<>>
        THEN FileHolds(output_file', final_dataset')
        ELSE output_file' = output_file ]_vars

\* C9 witness: a run ended with an empty joined table while the output table of
\* an earlier run is on disk.
C9_Witness ==
    /\ pc = "done" /\ LoopOver
    /\ final_dataset.rows = <<>>
    /\ output_file.exists
    /\ output_file.rows # <<>>

\* C7: for N observed points the sampler produces exactly 2N points, each with
\* latitude and longitude inside the observed bounding box and a timestamp inside
\* the configured range [T0, T1]; for N = 0 it produces no row, and the run ends
\* without raising and without an output file.
C7_SamplerInBoxAndRange ==
    pc \in {"extract", "finalize", "done"} =>
        /\ Len(pseudo_absence_data) = 2 * Len(presence_data)
        /\ \A k \in DOMAIN pseudo_absence_data :
              LET q == pseudo_absence_data[k]
              IN  /\ \E a, b \in DOMAIN presence_data :
                        /\ presence_data[a].lat <= q.lat /\ q.lat <= presence_data[b].lat
                  /\ \E a, b \in DOMAIN presence_data :
                        /\ presence_data[a].lon <= q.lon /\ q.lon <= presence_data[b].lon
                  /\ T0 <= q.time /\ q.time <= T1
        /\ Len(presence_data) = 0 =>
              /\ pc = "done"
              /\ final_dataset = EmptyTable
              /\ ~output_file.exists

\* C10: a target whose file exists and passes the validity check (existence plus
\* minimum size) is returned without any HTTP request and without a change to the
\* file or to the missing-files log; a file that exists but is below the minimum
\* size is not skipped: it is requested again.
C10_SkipOnlyValidFiles ==
    [][ dl_pc = "loop" =>
            LET target == dates_to_download[dl_i]
            IN  /\ disk[target] # Absent /\ disk[target] > MinValidSize =>
                      /\ returned' = SavePath(target)
                      /\ attempts' = 0
                      /\ disk' = disk
                      /\ missing_log' = missing_log
                /\ disk[target] # Absent /\ disk[target] <= MinValidSize =>
                      attempts' > 0 ]_vars

\* The target of the current iteration of the download loop
Target == dates_to_download[dl_i]

\* The download loop takes a step for Target
DownloadStep == dl_pc = "loop" /\ dl_i' = dl_i + 1

\* A network error (on the request or while streaming), a 5xx or a 429
Transient(r) ==
    \/ r.error \in {"get", "stream"}
    \/ r.status = 429
    \/ r.status >= 500 /\ r.status <= 599

AllTransient(answers) ==
    /\ answers # <<>>
    /\ \A k \in DOMAIN answers : Transient(answers[k])

\* The log has grown by exactly one entry, for the given target
OneEntryAppended(before, after, target) ==
    /\ Len(after) = Len(before) + 1
    /\ SubSeq(after, 1, Len(before)) = before
    /\ after[Len(after)][1] = target

\* The loop goes on: the next target is up, or the list is finished
LoopGoesOn ==
    /\ dl_i' = dl_i + 1
    /\ dl_pc' = IF dl_i < Len(dates_to_download) THEN "loop" ELSE "done"

Permanent(r) == r.error = "none" /\ (r.status = 404 \/ r.html)

\* C12: when the server answers 404 or with an HTML page, the target gets one
\* entry in the missing-files log, no further request is made for it, None is
\* returned, and the run continues with the next target.
C12_PermanentFailureLogged ==
    [][ DownloadStep /\ (\E k \in DOMAIN served' : Permanent(served'[k])) =>
            /\ \A k \in DOMAIN served' : Permanent(served'[k]) => k = Len(served')
            /\ returned' = NoPath
            /\ OneEntryAppended(missing_log, missing_log', Target)
            /\ nc_files' = nc_files
            /\ LoopGoesOn ]_vars

\* The files' start dates all parse and no two files share one
DistinctStarts(files) ==
    /\ \A k \in DOMAIN files : files[k].start # NaT
    /\ \A a, b \in DOMAIN files : a # b => files[a].start # files[b].start

\* Slice k of the loaded field d holds the time and the values of file f
SliceOf(d, k, f) ==
    /\ d.time[k] = f.start
    /\ \A i \in DOMAIN d.vals[k] : \A j \in DOMAIN d.vals[k][i] :
          d.vals[k][i][j] # NaN => d.vals[k][i][j] \div 100 = f.base \div 100

\* The loop loads the gridded source whose files are `files` in listing order
Loads(source, files) ==
    /\ pc = "extract"
    /\ src_i' = src_i + 1
    /\ source = data_sources[src_i]
    /\ files = ValidFiles(folders[source.name])
    /\ files # <<>>
    /\ ds'.kind = "grid"

\* C13: for a source whose time axis is built from the file names, in whatever
\* order the listing returns files with distinct start dates, the loaded field's
\* time axis is strictly increasing and each time slice carries the start date
\* of its own file.
C13_TimeAxisStrictlyIncreasing ==
    [][ \A source \in Range(data_sources) :
          LET files == ValidFiles(folders[source.name])
          IN  Loads(source, files) /\ source.needs_time /\ DistinctStarts(files) =>
                  /\ StrictlyIncreasing(ds'.time)
                  /\ Len(ds'.time) = Len(files)
                  /\ \A k \in DOMAIN files : SliceOf(ds', k, files[k]) ]_vars

\* The index records href with a downloaded local file
RecordedWithFile(index, href) ==
    index.exists /\ \E k \in DOMAIN index.rows :
        index.rows[k].href = href /\ index.rows[k].local_path # NoPath

\* A step of the download loop that requests href
Requests(href) == g_pc = "download" /\ last_request' = href

\* A run comes to its end
RunEnds == g_pc # "done" /\ g_pc' = "done"

\* C14: over any sequence of runs sharing the index file, an href recorded with a
\* downloaded local file is never requested again, and a granule the search
\* returns whose download has not succeeded yet (the run was interrupted before
\* it, or its download failed) is requested by the next run that completes.
C14_RestartResumes ==
    [][ /\ \A h \in Granules : RecordedWithFile(out_index, h) => ~Requests(h)
        /\ RunEnds =>
              \A h \in listed' :
                  \/ h \in run_requests'
                  \/ RecordedWithFile(out_index', h) /\ data_sss'[h] = "full" ]_vars

\* The values of an axis inside the range [min, max] of the coordinates P
NodesInBox(axis, P) == {a \in Range(axis) : MinOf(P) <= a /\ a <= MaxOf(P)}

\* The loop opens a gridded source whose extent overlaps the points' bounding box
OpensOverlapping(source, folder) ==
    /\ pc = "extract"
    /\ src_i' = src_i + 1
    /\ source = data_sources[src_i]
    /\ source.is_gridded
    /\ ValidFiles(folder) # <<>>
    /\ ~Apart(SourceLats(folder), PointLats)
    /\ ~Apart(SourceLons(folder), PointLons)

\* C15: for a gridded source whose latitude/longitude extent overlaps the points'
\* bounding box, open_multifile_dataset returns a non-empty cropped field holding
\* every grid node inside the box, and the source is not skipped, whether its
\* latitude axis is descending or ascending.
C15_CropKeepsOverlapping ==
    [][ \A source \in Range(data_sources) :
          OpensOverlapping(source, folders[source.name]) =>
              /\ outcome'[source.name] # "skipped"
              /\ ds'.kind = "grid"
              /\ ds'.lat # <<>> /\ ds'.lon # <<>>
              /\ Range(ds'.lat) = NodesInBox(folders[source.name].lat, PointLats)
              /\ Range(ds'.lon) = NodesInBox(folders[source.name].lon, PointLons) ]_vars

\* The file at the target's local path passes the existing-file check
PassesCheck(d, target) == d[target] # Absent /\ d[target] > MinValidSize

\* download_nc_file returns the local path without a request
SkipsAsValid == DownloadStep /\ attempts' = 0 /\ returned' = SavePath(Target)

\* C16: over any sequence of runs of the 8-day SST downloader, when
\* download_nc_file returns None for a target no file that passes the
\* existence-plus-minimum-size check remains at its local path, and a call skips
\* a target as already valid only if the file there is a completely downloaded
\* one.
C16_FailedDownloadNeverValid ==
    [][ script = "SST_script_8day" =>
            /\ DownloadStep /\ returned' = NoPath => ~PassesCheck(disk', Target)
            /\ SkipsAsValid => disk[Target] = FullBody ]_vars

====
